---- MODULE Spec2Model ----
(***************************************************************************)
(* One-time pad (src/pad.py): the cipher engine (encrypt, decrypt), the    *)
(* pad generator, the codec (to_packed, to_native, pack_pad, unpack_pad)   *)
(* and the PadWriter session object that keeps the pad file up to date.    *)
(*                                                                         *)
(* numpy arrays are 0-indexed; sequences here are 1-indexed, so that pad   *)
(* index i of the program is element i + 1 of the sequence.                *)
(***************************************************************************)
EXTENDS Integers, Sequences, FiniteSets, TLC

(***************************************************************************)
(* Bounds of the model.                                                    *)
(***************************************************************************)
MaxLen == 2        \* largest pad length requested from PadWriter
MaxMsgLen == 2     \* longest message / ciphertext handed to a transaction

\* default length of a pad (only used when no length is given)
default_pad_length == 1000000

\* values the entropy source delivers per byte of getrandbits: 0 makes the
\* leading byte of the random integer vanish, 65 is 'A'
RandBytes == {0, 65}
\* character codes of the messages handed to encrypt_message
MsgChars == {0, 65}
\* the PadWriter objects
Writers == {1, 2}
\* the optional length argument of PadWriter: <<n>> when the caller gives
\* the length n, None when the caller gives none
None == <<>>

(***************************************************************************)
(* Sequence helpers.                                                       *)
(***************************************************************************)
SeqsUpTo(S, n) == UNION {[1..k -> S] : k \in 0..n}

Range(s) == {s[i] : i \in 1..Len(s)}

RECURSIVE SumSeq(_)
SumSeq(s) == IF s = <<>> THEN 0 ELSE s[1] + SumSeq(Tail(s))

RECURSIVE MinSeq(_)
MinSeq(s) == IF Len(s) = 1 THEN s[1]
             ELSE LET m == MinSeq(Tail(s)) IN IF s[1] < m THEN s[1] ELSE m

(***************************************************************************)
(* array.tostring() / np.fromstring(blob, dtype): the raw bytes of an      *)
(* array in host (little endian) byte order.  A failure is the record      *)
(* [ok |-> FALSE].                                                         *)
(***************************************************************************)
Fail == [ok |-> FALSE, val |-> <<>>]
Ok(v) == [ok |-> TRUE, val |-> v]

\* dtype_pad = np.uint8: one byte per entry
tostring_pad(pad) == [i \in 1..Len(pad) |-> pad[i] % 256]
fromstring_pad(blob) == Ok([i \in 1..Len(blob) |-> blob[i]])

\* np.bool: one byte per entry, 1 = True (unused), 0 = False (consumed)
tostring_bool(unused) == [i \in 1..Len(unused) |-> IF unused[i] THEN 1 ELSE 0]
fromstring_bool(blob) == Ok([i \in 1..Len(blob) |-> blob[i] # 0])

\* dtype_message = np.uint64: eight bytes per entry, least significant first
RECURSIVE le_value(_)
le_value(bs) == IF bs = <<>> THEN 0 ELSE bs[1] + (256 * le_value(Tail(bs)))

\* byte j (0 = least significant) of the value v
RECURSIVE le_byte(_, _)
le_byte(v, j) == IF j = 0 THEN v % 256 ELSE le_byte(v \div 256, j - 1)

tostring_message(encrypted) ==
    [k \in 1..(8 * Len(encrypted)) |->
        le_byte(encrypted[((k - 1) \div 8) + 1], (k - 1) % 8)]

\* np.fromstring raises ValueError when the size is no multiple of 8
fromstring_message(blob) ==
    IF Len(blob) % 8 # 0 THEN Fail
    ELSE Ok([i \in 1..(Len(blob) \div 8) |->
                le_value(SubSeq(blob, (8 * (i - 1)) + 1, 8 * i))])

(***************************************************************************)
(* base64: three bytes become four symbols 0..63; 64 stands for '='.       *)
(***************************************************************************)
B64Pad == 64

\* byte i of bs, 0 past its end (the bits that pad the last group)
byte_at(bs, i) == IF i <= Len(bs) THEN bs[i] ELSE 0

b64encode(bs) ==
    [k \in 1..(4 * ((Len(bs) + 2) \div 3)) |->
        LET g == 3 * ((k - 1) \div 4)
            j == (k - 1) % 4
        IN CASE j = 0 -> byte_at(bs, g + 1) \div 4
             [] j = 1 -> ((byte_at(bs, g + 1) % 4) * 16) + (byte_at(bs, g + 2) \div 16)
             [] j = 2 -> IF g + 2 > Len(bs) THEN B64Pad
                         ELSE ((byte_at(bs, g + 2) % 16) * 4) + (byte_at(bs, g + 3) \div 64)
             [] j = 3 -> IF g + 3 > Len(bs) THEN B64Pad
                         ELSE byte_at(bs, g + 3) % 64]

\* binascii.Error ("Incorrect padding") unless the symbols come in fours with
\* '=' only as the last or the last two symbols
b64decode(t) ==
    LET n == Len(t)
        npad == IF n = 0 THEN 0
                ELSE IF t[n] # B64Pad THEN 0
                ELSE IF t[n - 1] # B64Pad THEN 1 ELSE 2
    IN IF n % 4 # 0 \/ \E k \in 1..(n - npad) : t[k] = B64Pad THEN Fail
       ELSE Ok([i \in 1..((3 * (n \div 4)) - npad) |->
                LET g == 4 * ((i - 1) \div 3)
                    j == (i - 1) % 3
                IN CASE j = 0 -> (t[g + 1] * 4) + (t[g + 2] \div 16)
                     [] j = 1 -> ((t[g + 2] % 16) * 16) + (t[g + 3] \div 4)
                     [] j = 2 -> ((t[g + 3] % 4) * 64) + t[g + 4]])

(***************************************************************************)
(* zlib: a stream is the two header bytes, the deflate body and the        *)
(* Adler-32 checksum of the data, most significant byte first.  The body   *)
(* is kept as one stored block (final-block marker, length, complement of  *)
(* the length, data); decompression checks all of it.                      *)
(***************************************************************************)
AdlerMod == 65521

\* the two running sums of Adler-32, from byte i of bs on
RECURSIVE adler_sums(_, _, _, _)
adler_sums(bs, i, a, b) ==
    IF i > Len(bs) THEN <<a, b>>
    ELSE adler_sums(bs, i + 1, (a + bs[i]) % AdlerMod,
                    (b + ((a + bs[i]) % AdlerMod)) % AdlerMod)

adler32(bs) ==
    LET s == adler_sums(bs, 1, 1, 0) IN
    <<s[2] \div 256, s[2] % 256, s[1] \div 256, s[1] % 256>>

zlib_compress(bs) ==
    LET n == Len(bs) IN
    <<120, 1, 1, n % 256, n \div 256, 255 - (n % 256), 255 - (n \div 256)>>
        \o bs \o adler32(bs)

\* zlib.error on a stream that is cut short, has a wrong header or checksum
zlib_decompress(z) ==
    IF Len(z) < 11 THEN Fail
    ELSE LET n == z[4] + (256 * z[5])
             data == SubSeq(z, 8, Len(z) - 4)
         IN IF /\ z[1] = 120 /\ z[2] = 1 /\ z[3] = 1
               /\ z[6] = 255 - z[4] /\ z[7] = 255 - z[5]
               /\ Len(data) = n
               /\ SubSeq(z, Len(z) - 3, Len(z)) = adler32(data)
            THEN Ok(data)
            ELSE Fail

(***************************************************************************)
(* to_packed / to_native: array bytes <-> base64 text, zlib in between     *)
(* when asked for.  The dtype conversion is applied by the callers below.  *)
(***************************************************************************)
to_packed(bytes, compress) ==
    IF compress THEN b64encode(zlib_compress(bytes)) ELSE b64encode(bytes)

to_native(blob, decompress) ==
    LET raw == b64decode(blob) IN
    IF ~raw.ok THEN Fail
    ELSE IF decompress THEN zlib_decompress(raw.val)
    ELSE raw

(***************************************************************************)
(* Cipher engine.                                                          *)
(***************************************************************************)
\* lookup[letter] = (pad == letter)
lookup(pad, letter) == [i \in 1..Len(pad) |-> pad[i] = letter]

\* options that forget the usage mask
options_ignoring_unused(unused, look) == look

\* options that forget the symbol
options_ignoring_letter(unused, look) == unused

\* options = np.logical_and(unused, lookup[charecter])
options(unused, look) == [i \in 1..Len(unused) |-> unused[i] /\ look[i]]

\* first match only
nonzero_first(opts) ==
    {i - 1 : i \in {j \in 1..Len(opts) : opts[j] /\ \A k \in 1..(j - 1) : ~opts[k]}}

\* np.nonzero(options)[0]: the (zero-based) places where options holds
nonzero(opts) == {i - 1 : i \in {j \in 1..Len(opts) : opts[j]}}

\* options.sum()
count(opts) == Cardinality(nonzero(opts))

\* the mask is left as it is
consume_nothing(unused, pad_index) == unused

\* unused[pad_index] = False, on the caller's array
consume(unused, pad_index) == [unused EXCEPT ![pad_index + 1] = FALSE]

\* the loop over message_int: every outcome random.choice can lead to.
\* random.choice raises IndexError on an empty sequence, which leaves the
\* loop with what was consumed and chosen so far.
RECURSIVE encrypt_loop(_, _, _, _, _)
encrypt_loop(message_int, pad, unused, encrypted, statistics) ==
    IF message_int = <<>>
    THEN {[status |-> "ok", encrypted |-> encrypted, unused |-> unused,
           statistics |-> statistics]}
    ELSE LET opts == options(unused, lookup(pad, message_int[1]))
             stats == Append(statistics, count(opts))
         IN IF nonzero(opts) = {}
            THEN {[status |-> "IndexError", encrypted |-> encrypted,
                   unused |-> unused, statistics |-> stats]}
            ELSE UNION {encrypt_loop(Tail(message_int), pad,
                                     consume(unused, pad_index),
                                     Append(encrypted, pad_index), stats) :
                        pad_index \in nonzero(opts)}

\* statistics.mean() and statistics.min() for the line that is printed: the
\* minimum of an empty array raises ValueError.  The mean is kept as the
\* pair (sum, size).
pad_statistics(statistics) ==
    IF statistics = <<>> THEN Fail
    ELSE Ok(<<SumSeq(statistics), Len(statistics), MinSeq(statistics)>>)

\* encrypt on a copy of the mask: a call that fails leaves the caller's
\* mask as it was
encrypt_on_copy(message, pad, unused) ==
    LET message_int == [i \in 1..Len(message) |-> message[i] % 256]
    IN {IF o.status = "ok"
        THEN (IF pad_statistics(o.statistics).ok THEN o
              ELSE [o EXCEPT !.status = "ValueError"])
        ELSE [o EXCEPT !.unused = unused] :
        o \in encrypt_loop(message_int, pad, unused, <<>>, <<>>)}

\* encrypt(message, pad, unused): the set of possible outcomes.  unused is
\* the caller's array, so the outcome's mask is what the caller is left with
\* also when an exception leaves the function.
encrypt(message, pad, unused) ==
    LET message_int == [i \in 1..Len(message) |-> message[i] % 256]
    IN {IF o.status = "ok" /\ ~pad_statistics(o.statistics).ok
        THEN [o EXCEPT !.status = "ValueError"]
        ELSE o :
        o \in encrypt_loop(message_int, pad, unused, <<>>, <<>>)}

\* the indices beyond the pad are read as index 0
decrypt_clipped(encrypted, pad) ==
    Ok([i \in 1..Len(encrypted) |->
            pad[(IF encrypted[i] >= Len(pad) THEN 0 ELSE encrypted[i]) + 1]])

\* decrypt(encrypted, pad): pad[encrypted] raises IndexError when an index
\* is not below the length of the pad
decrypt(encrypted, pad) ==
    IF \E i \in 1..Len(encrypted) : encrypted[i] >= Len(pad) THEN Fail
    ELSE Ok([i \in 1..Len(encrypted) |-> pad[encrypted[i] + 1]])

(***************************************************************************)
(* Pad generation.  random.getrandbits(k) is an integer below 2^k and      *)
(* raises ValueError for k < 0; random.long_to_bytes(n) is the shortest    *)
(* big-endian byte string of n (one zero byte for n = 0).                  *)
(***************************************************************************)
RECURSIVE be_value(_)
be_value(bs) ==
    IF bs = <<>> THEN 0
    ELSE (256 * be_value(SubSeq(bs, 1, Len(bs) - 1))) + bs[Len(bs)]

RECURSIVE be_bytes(_)
be_bytes(n) == IF n = 0 THEN <<>> ELSE Append(be_bytes(n \div 256), n % 256)

long_to_bytes(n) == IF n = 0 THEN <<0>> ELSE be_bytes(n)

\* the outcomes of the entropy source that the model follows
getrandbits(k) ==
    IF k < 0 THEN {}
    ELSE {be_value(bs) : bs \in [1..(k \div 8) -> RandBytes]}

\* generate_pad(length), given the integer r that getrandbits delivered
generate_pad(length, r) ==
    LET pad == fromstring_pad(long_to_bytes(r)).val
        unused == [i \in 1..Len(pad) |-> TRUE]
    IN [pad |-> pad, unused |-> unused]

(***************************************************************************)
(* The pad file.  A file holds the JSON text of pack_pad, or, when the     *)
(* process died between opening the file for writing and closing it, a     *)
(* text that json.loads rejects (whole = FALSE).                           *)
(***************************************************************************)
NoFile == [exists |-> FALSE, whole |-> FALSE, pad |-> <<>>, unused |-> <<>>]
TornFile == [exists |-> TRUE, whole |-> FALSE, pad |-> <<>>, unused |-> <<>>]

\* the mask is packed without compression, and still unpacked with it
pack_pad_plain_mask(pad, unused) ==
    [exists |-> TRUE, whole |-> TRUE,
     pad |-> to_packed(tostring_pad(pad), FALSE),
     unused |-> to_packed(tostring_bool(unused), FALSE)]

pack_pad(pad, unused) ==
    [exists |-> TRUE, whole |-> TRUE,
     pad |-> to_packed(tostring_pad(pad), FALSE),
     unused |-> to_packed(tostring_bool(unused), TRUE)]

unpack_pad(packed) ==
    IF ~packed.whole THEN Fail
    ELSE LET p == to_native(packed.pad, FALSE)
             u == to_native(packed.unused, TRUE)
         IN IF ~p.ok \/ ~u.ok THEN Fail
            ELSE Ok([pad |-> fromstring_pad(p.val).val,
                     unused |-> fromstring_bool(u.val).val])

(***************************************************************************)
(* State.                                                                  *)
(*   file      the pad file at PadWriter.file_name                         *)
(*   mem       per PadWriter object: whether it exists, self.pad and       *)
(*             self.unused                                                 *)
(*   last      the call that was made last and how it ended; for the       *)
(*             transactions also what the call started from (pre)          *)
(*   issued    the pad indices returned by encrypt_message so far          *)
(*   generated the pad as generate_pad returned it to the PadWriter that   *)
(*             created the pad file (empty before)                         *)
(***************************************************************************)
VARIABLES file, mem, last, issued, generated

vars == <<file, mem, last, issued, generated>>

Closed == [open |-> FALSE, pad |-> <<>>, unused |-> <<>>]
Loaded(pad, unused) == [open |-> TRUE, pad |-> pad, unused |-> unused]

NoPre == [pad |-> <<>>, unused |-> <<>>, issued |-> {}, file |-> NoFile,
          repeated |-> FALSE]

\* what a transaction of PadWriter w starts from: self.pad, self.unused, the
\* indices issued so far and the pad file; repeated tells that the call
\* before was the same decrypt_message, and returned
Pre(w, repeated) ==
    [pad |-> mem[w].pad, unused |-> mem[w].unused, issued |-> issued,
     file |-> file, repeated |-> repeated]

Called(op, w, status, arg, out, indices, pre) ==
    [op |-> op, w |-> w, status |-> status, arg |-> arg, out |-> out,
     indices |-> indices, pre |-> pre]

Done(op, w, status, arg, out, indices) ==
    Called(op, w, status, arg, out, indices, NoPre)

\* inputs of the calls
Lengths == {<<n>> : n \in (-1)..MaxLen}
\* the length arguments followed for a PadWriter on file f: no length (the
\* default length) only where the file exists and no pad is generated
LengthArgs(f) == Lengths \cup (IF f.exists THEN {None} ELSE {})
Messages == SeqsUpTo(MsgChars, MaxMsgLen)
\* the ciphertexts handed to decrypt_message: of no or one index, in the
\* pad or beyond it, and the ciphertext encrypt_message has just returned
Crafted == {to_packed(tostring_message(c), TRUE) : c \in SeqsUpTo(0..MaxLen, 1)}
\* an index of the pad followed by an index beyond the pad
Beyond == to_packed(tostring_message(<<0, MaxLen>>), TRUE)
\* payloads that are no ciphertext: base64 text that is cut short, base64
\* of something that is no zlib stream, a zlib stream with a wrong checksum,
\* and a zlib stream of seven bytes, which is no array of 64-bit indices
Malformed ==
    {<<30, 0, 4>>,
     b64encode(<<1, 2, 3>>),
     b64encode([zlib_compress(tostring_message(<<0>>)) EXCEPT ![19] = 9]),
     to_packed(<<0, 0, 0, 0, 0, 0, 0>>, TRUE)}
Ciphertexts ==
    Crafted \cup {Beyond} \cup Malformed
        \cup (IF last.op = "encrypt" /\ last.status = "ok" THEN {last.out} ELSE {})

Init ==
    /\ file = NoFile
    /\ mem = [w \in Writers |-> Closed]
    /\ last = Done("none", 0, "ok", <<>>, <<>>, <<>>)
    /\ issued = {}
    /\ generated = <<>>

\* the consumed bytes of the pad are written as zero
write_pad_erasing(pad, unused) ==
    pack_pad([i \in 1..Len(pad) |-> IF unused[i] THEN pad[i] ELSE 0], unused)

\* a fresh mask is written instead of self.unused
write_pad_fresh_mask(pad, unused) == pack_pad(pad, [i \in 1..Len(unused) |-> TRUE])

\* PadWriter._write_pad: the file after open(file_name, 'w'), write, close
write_pad(pad, unused) == pack_pad(pad, unused)

\* the pad of the file with a mask of its own
load_pad_fresh_mask(f) ==
    LET loaded == unpack_pad(f) IN
    IF ~loaded.ok THEN Fail
    ELSE Ok([pad |-> loaded.val.pad,
             unused |-> [i \in 1..Len(loaded.val.pad) |-> TRUE]])

\* PadWriter._load_pad
load_pad(f) == unpack_pad(f)

\* PadWriter._new_pad: the length that generate_pad is called with
new_pad_length(length) == IF length = None THEN default_pad_length ELSE length[1]

\* PadWriter.__init__(file_name, length)
PadWriter_init(w, length) ==
    /\ ~mem[w].open
    /\ IF file.exists
       THEN LET loaded == load_pad(file) IN
            /\ mem' = IF loaded.ok
                      THEN [mem EXCEPT ![w] = Loaded(loaded.val.pad, loaded.val.unused)]
                      ELSE mem
            /\ file' = file
            /\ last' = Called("load", w, IF loaded.ok THEN "ok" ELSE "ValueError",
                              length, <<>>, <<>>, Pre(w, FALSE))
            /\ generated' = generated
       ELSE LET n == new_pad_length(length) IN
            IF getrandbits(n * 8) = {}
            THEN /\ mem' = mem
                 /\ file' = file
                 /\ last' = Called("create", w, "ValueError", length, <<>>, <<>>,
                                   Pre(w, FALSE))
                 /\ generated' = generated
            ELSE \E r \in getrandbits(n * 8) :
                    LET g == generate_pad(n, r) IN
                    /\ mem' = [mem EXCEPT ![w] = Loaded(g.pad, g.unused)]
                    /\ file' = write_pad(g.pad, g.unused)
                    /\ last' = Called("create", w, "ok", length, <<>>, <<>>,
                                      Pre(w, FALSE))
                    /\ generated' = g.pad
    /\ UNCHANGED issued

\* PadWriter.encrypt_message(message)
encrypt_message(w, message) ==
    /\ mem[w].open
    /\ \E o \in encrypt(message, mem[w].pad, mem[w].unused) :
        LET pre == Pre(w, FALSE) IN
        /\ mem' = [mem EXCEPT ![w].unused = o.unused]
        /\ IF o.status = "ok"
           THEN /\ file' = write_pad(mem[w].pad, o.unused)
                /\ last' = Called("encrypt", w, "ok", message,
                                  to_packed(tostring_message(o.encrypted), TRUE),
                                  o.encrypted, pre)
                /\ issued' = issued \cup Range(o.encrypted)
           ELSE /\ file' = file
                /\ last' = Called("encrypt", w, o.status, message, <<>>,
                                  o.encrypted, pre)
                /\ issued' = issued
    /\ UNCHANGED generated

\* the mask is left as it is
mark_nothing(unused, encrypted_array) == unused

\* the entries at the indices are flipped
mark_flipped(unused, encrypted_array) ==
    [i \in 1..Len(unused) |->
        IF (i - 1) \in Range(encrypted_array) THEN ~unused[i] ELSE unused[i]]

\* the indices are set to True
mark_unused(unused, encrypted_array) ==
    [i \in 1..Len(unused) |->
        IF (i - 1) \in Range(encrypted_array) THEN TRUE ELSE unused[i]]

\* self.unused[encrypted_array] = False
mark_used(unused, encrypted_array) ==
    [i \in 1..Len(unused) |->
        IF (i - 1) \in Range(encrypted_array) THEN FALSE ELSE unused[i]]

\* PadWriter.decrypt_message(encrypted)
decrypt_message(w, encrypted) ==
    /\ mem[w].open
    /\ LET native == to_native(encrypted, TRUE)
           encrypted_array == IF native.ok THEN fromstring_message(native.val)
                              ELSE Fail
           decrypted == IF encrypted_array.ok
                        THEN decrypt(encrypted_array.val, mem[w].pad)
                        ELSE Fail
           pre == Pre(w, /\ last.op = "decrypt" /\ last.status = "ok"
                         /\ last.w = w /\ last.arg = encrypted)
       IN IF decrypted.ok
          THEN LET unused == mark_used(mem[w].unused, encrypted_array.val) IN
               /\ mem' = [mem EXCEPT ![w].unused = unused]
               /\ file' = write_pad(mem[w].pad, unused)
               /\ last' = Called("decrypt", w, "ok", encrypted, decrypted.val,
                                 encrypted_array.val, pre)
          ELSE /\ last' = Called("decrypt", w,
                                 IF encrypted_array.ok THEN "IndexError"
                                 ELSE "DecodeError",
                                 encrypted, <<>>, <<>>, pre)
               /\ UNCHANGED <<mem, file>>
    /\ UNCHANGED <<issued, generated>>

\* the process that holds the PadWriter object ends
Exit(w) ==
    /\ mem[w].open
    /\ mem' = [mem EXCEPT ![w] = Closed]
    /\ last' = Done("exit", w, "ok", <<>>, <<>>, <<>>)
    /\ UNCHANGED <<file, issued, generated>>

\* the process dies inside _write_pad, after open(file_name, 'w') has
\* emptied the file and before the text is written and the file closed.
\* _write_pad is reached by the constructor when there is no file and by
\* every transaction that does not raise.
write_pad_crash(w) ==
    /\ mem[w].open \/ ~file.exists
    /\ file' = TornFile
    /\ mem' = [mem EXCEPT ![w] = Closed]
    /\ last' = Done("crash", w, "killed", <<>>, <<>>, <<>>)
    /\ UNCHANGED <<issued, generated>>

\* the process dies anywhere else: between two calls, or inside a call
\* before _write_pad is reached.  What was only in memory is gone.
kill(w) ==
    /\ mem[w].open
    /\ mem' = [mem EXCEPT ![w] = Closed]
    /\ last' = Done("kill", w, "killed", <<>>, <<>>, <<>>)
    /\ UNCHANGED <<file, issued, generated>>

\* one PadWriter object at a time, one call at a time
Next ==
    \/ \E length \in LengthArgs(file) : PadWriter_init(1, length)
    \/ \E message \in Messages : encrypt_message(1, message)
    \/ \E encrypted \in Ciphertexts : decrypt_message(1, encrypted)
    \/ Exit(1)

Spec == Init /\ [][Next]_vars

\* the same, with the process dying at any point
NextCrash == Next \/ write_pad_crash(1) \/ kill(1)

SpecCrash == Init /\ [][NextCrash]_vars

\* several PadWriter objects on the pad file, in one process or in several:
\* their calls do not overlap, each runs to its end before the next begins.
\* The messages followed are those of one symbol, the ciphertexts those
\* named by Crafted.
NextShared ==
    \E w \in Writers :
        \/ \E length \in LengthArgs(file) : PadWriter_init(w, length)
        \/ \E message \in [1..1 -> MsgChars] : encrypt_message(w, message)
        \/ \E encrypted \in Crafted : decrypt_message(w, encrypted)
        \/ Exit(w)

SpecShared == Init /\ [][NextShared]_vars

(***************************************************************************)
(* Vocabulary of the properties.                                           *)
(***************************************************************************)
\* the (zero-based) consumed positions of a usage mask
Consumed(unused) == {i - 1 : i \in {j \in 1..Len(unused) : ~unused[j]}}

\* what _load_pad would read from the pad file now
Reloaded == unpack_pad(file)

\* the last call was encrypt_message, and it returned a ciphertext
Encrypted == last.op = "encrypt" /\ last.status = "ok"

\* the last call was encrypt_message, and it failed with pad exhaustion
Exhausted == last.op = "encrypt" /\ last.status = "IndexError"

\* the unused positions of the pad that carry the byte value b, besides the
\* positions in c
Candidates(pad, unused, c, b) ==
    {i \in 0..(Len(pad) - 1) : pad[i + 1] = b /\ unused[i + 1] /\ i \notin Range(c)}

\* c is a choice of distinct unused positions for the first Len(c) symbols
\* of message m
ValidChoice(pad, unused, m, c) ==
    /\ Len(c) <= Len(m)
    /\ \A i \in 1..Len(c) :
        c[i] \in Candidates(pad, unused, SubSeq(c, 1, i - 1), m[i])

\* the store has enough unused positions for message m
Enough(pad, unused, m) ==
    \A b \in Range(m) :
        Cardinality({i \in 1..Len(m) : m[i] = b})
            <= Cardinality(Candidates(pad, unused, <<>>, b))

\* the message positions (from 1) at which the candidates have run out: as
\* many earlier symbols of the same value as the pad has unused positions
RunsOut(pad, unused, m) ==
    {i \in 1..Len(m) :
        Cardinality({j \in 1..(i - 1) : m[j] = m[i]})
            >= Cardinality(Candidates(pad, unused, <<>>, m[i]))}

Least(S) == CHOOSE x \in S : \A y \in S : x <= y

\* the last call was a transaction, and it returned
Transacted == last.op \in {"encrypt", "decrypt"} /\ last.status = "ok"

\* the positions that were consumed in self.unused and not in the pad file
\* when the last call began: what failed encrypt calls of the session had
\* chosen since the file was written
Leftover ==
    Consumed(last.pre.unused) \ Consumed(unpack_pad(last.pre.file).val.unused)

(***************************************************************************)
(* C1. Round trip: encrypt_message of any message (the empty one too) on   *)
(* a store with enough unused positions returns a ciphertext, and          *)
(* decrypting that ciphertext against the same pad gives the message back. *)
(* Fails on the code for the empty message (ValueError from the minimum    *)
(* of the empty statistics).                                               *)
(***************************************************************************)
C1_RoundTrip ==
    last.op = "encrypt" /\ Enough(last.pre.pad, last.pre.unused, last.arg) =>
        /\ last.status = "ok"
        /\ LET native == to_native(last.out, TRUE)
               encrypted_array == fromstring_message(native.val)
               decrypted == decrypt(encrypted_array.val, mem[last.w].pad)
           IN native.ok /\ encrypted_array.ok /\ decrypted.ok
              /\ decrypted.val = last.arg

(***************************************************************************)
(* C2. No reuse: an index returned by encrypt_message was never returned   *)
(* by an earlier encrypt_message on the store (whatever decrypt_message    *)
(* calls and reloads lie in between), and occurs once in its ciphertext.   *)
(***************************************************************************)
C2_NoReuse ==
    Encrypted =>
        /\ Range(last.indices) \cap last.pre.issued = {}
        /\ \A i, j \in 1..Len(last.indices) :
            last.indices[i] = last.indices[j] => i = j

\* a ciphertext has been returned after other ciphertexts
C2_Witness ==
    /\ Encrypted
    /\ last.indices # <<>>
    /\ last.pre.issued # {}

(***************************************************************************)
(* C3. Encrypt postcondition: a returned ciphertext c for message m has    *)
(* the length of m, Pad[c[i]] = m[i], and c[i] was unused right before it  *)
(* was selected; and every candidate can be chosen: the possible choices   *)
(* of encrypt are exactly the sequences of candidates, up to the end of    *)
(* the message or to the first symbol without candidate.                   *)
(***************************************************************************)
C3_EncryptPost ==
    last.op = "encrypt" =>
        LET pad == last.pre.pad
            unused == last.pre.unused
            m == last.arg
        IN /\ Encrypted =>
                /\ Len(last.indices) = Len(m)
                /\ ValidChoice(pad, unused, m, last.indices)
           /\ {o.encrypted : o \in encrypt(m, pad, unused)}
                = {c \in SeqsUpTo(0..(Len(pad) - 1), Len(m)) :
                    /\ ValidChoice(pad, unused, m, c)
                    /\ \/ Len(c) = Len(m)
                       \/ Candidates(pad, unused, c, m[Len(c) + 1]) = {}}

\* two positions carry the symbol and the later one was chosen first
C3_Witness ==
    /\ Encrypted
    /\ last.arg = <<65, 65>>
    /\ last.indices = <<1, 0>>

(***************************************************************************)
(* C4. Persistence durability: after an encrypt_message call that returns  *)
(* ciphertext c, the pad file reloads to the pad of before the call and to *)
(* the mask of before the call with exactly the indices of c moved from    *)
(* unused to consumed.                                                     *)
(***************************************************************************)
C4_PersistenceDurable ==
    Encrypted =>
        /\ Reloaded.ok
        /\ Reloaded.val.pad = last.pre.pad
        /\ Len(Reloaded.val.unused) = Len(last.pre.unused)
        /\ \A i \in 0..(Len(last.pre.unused) - 1) :
            IF i \in Range(last.indices)
            THEN last.pre.unused[i + 1] /\ ~Reloaded.val.unused[i + 1]
            ELSE Reloaded.val.unused[i + 1] = last.pre.unused[i + 1]

\* a ciphertext has been returned while another position was consumed
\* already, and the file shows both
C4_Witness ==
    /\ Encrypted
    /\ last.indices # <<>>
    /\ Consumed(last.pre.unused) # {}
    /\ Reloaded.ok
    /\ Consumed(Reloaded.val.unused) \ Range(last.indices) # {}

(***************************************************************************)
(* C5. Mask monotonicity: a consumed entry never becomes unused again, in  *)
(* the mask a PadWriter holds in memory and in the mask of the pad file    *)
(* from one written state to the next, whatever calls succeed or fail.     *)
(***************************************************************************)
C5_MaskMonotone ==
    [][/\ \A w \in Writers :
            mem[w].open /\ mem'[w].open =>
                Consumed(mem[w].unused) \subseteq Consumed(mem'[w].unused)
       /\ file.exists /\ file' # file =>
            LET old == unpack_pad(file)
                new == unpack_pad(file')
            IN old.ok =>
                /\ new.ok
                /\ Consumed(old.val.unused) \subseteq Consumed(new.val.unused)]_vars

\* a decrypt_message has consumed a position that no encrypt_message chose,
\* after a failed encrypt_message that left its own consumption in memory
C5_Witness ==
    /\ last.op = "decrypt" /\ last.status = "ok"
    /\ Range(last.indices) \ issued # {}
    /\ Reloaded.ok
    /\ Consumed(Reloaded.val.unused) \ (Range(last.indices) \cup issued) # {}

(***************************************************************************)
(* C6. Exhaustion: encrypt fails with the pad-exhausted error (IndexError  *)
(* of random.choice) exactly when the message has a symbol for which the   *)
(* candidates have run out, and it fails at the first such symbol, with    *)
(* all earlier symbols chosen.                                             *)
(***************************************************************************)
C6_Exhaustion ==
    last.op = "encrypt" =>
        LET runs_out == RunsOut(last.pre.pad, last.pre.unused, last.arg) IN
        /\ Exhausted <=> runs_out # {}
        /\ Exhausted => Len(last.indices) = Least(runs_out) - 1

\* exhausted at the second symbol, the first one had a candidate
C6_Witness ==
    /\ Exhausted
    /\ Len(last.arg) = 2
    /\ Len(last.indices) = 1

(***************************************************************************)
(* C7. Partial consumption is persisted (as claimed): after encrypt_message *)
(* has failed with pad exhaustion at position i, the file shows the        *)
(* indices chosen for positions 0..i-1 as consumed.                        *)
(***************************************************************************)
C7_PartialPersisted ==
    Exhausted =>
        /\ Reloaded.ok
        /\ Range(last.indices) \subseteq Consumed(Reloaded.val.unused)

(***************************************************************************)
(* C7, amended. After encrypt_message has failed with pad exhaustion at    *)
(* position i, the indices chosen for positions 0..i-1 are consumed in the *)
(* mask the PadWriter holds in memory, and the failed call has not written *)
(* the pad file: the file is as before the call and shows those indices    *)
(* as unused.                                                              *)
(***************************************************************************)
C7_PartialInMemoryOnly ==
    [][last'.op = "encrypt" /\ last'.status = "IndexError" =>
        /\ Range(last'.indices) \subseteq Consumed(mem'[last'.w].unused)
        /\ file' = file
        /\ LET reloaded == unpack_pad(file') IN
            /\ reloaded.ok
            /\ Range(last'.indices) \cap Consumed(reloaded.val.unused) = {}]_vars

\* a failed call with a chosen index that is consumed in memory only
C7_Witness ==
    /\ Exhausted
    /\ last.indices # <<>>
    /\ Range(last.indices) \subseteq Consumed(mem[1].unused)
    /\ Range(last.indices) \cap Consumed(Reloaded.val.unused) = {}

(***************************************************************************)
(* C8. Crash durability (as claimed): once a call has returned, wherever   *)
(* the process dies later, the pad file loads and shows every index of a   *)
(* returned ciphertext as consumed.                                        *)
(***************************************************************************)
C8_CrashDurable ==
    issued # {} =>
        /\ Reloaded.ok
        /\ issued \subseteq Consumed(Reloaded.val.unused)

(***************************************************************************)
(* C8, amended. Once a call has returned, the pad file shows every index   *)
(* of a returned ciphertext as consumed whenever it loads, and a file that *)
(* does not load comes from the death of the process inside a write of the *)
(* file: the last call is that one, or a constructor that failed to load   *)
(* the file since.                                                         *)
(***************************************************************************)
C8_DurableUnlessTorn ==
    IF Reloaded.ok
    THEN issued \subseteq Consumed(Reloaded.val.unused)
    ELSE \/ ~file.exists
         \/ last.op = "crash"
         \/ last.op = "load" /\ last.status # "ok"

\* the process died in the middle of a call after ciphertexts were
\* returned, and their indices are consumed in the file
C8_Witness ==
    /\ last.op = "kill"
    /\ issued # {}
    /\ Reloaded.ok
    /\ issued \subseteq Consumed(Reloaded.val.unused)

(***************************************************************************)
(* C9. Pad creation: for a requested length n > 0, whatever the random     *)
(* source delivers, the new pad has exactly n bytes and the mask exactly n *)
(* entries, all unused.  Fails on the code when the leading byte of the    *)
(* random integer is zero.                                                 *)
(***************************************************************************)
C9_PadLength ==
    last.op = "create" /\ last.arg[1] > 0 =>
        /\ last.status = "ok"
        /\ Len(mem[last.w].pad) = last.arg[1]
        /\ mem[last.w].unused = [i \in 1..last.arg[1] |-> TRUE]

(***************************************************************************)
(* C10. Invalid length: creating a store with a requested length <= 0      *)
(* fails; there is no store and no pad file afterwards.  Fails on the code *)
(* for the length 0.                                                       *)
(***************************************************************************)
C10_InvalidLength ==
    last.op = "create" /\ last.arg[1] <= 0 =>
        /\ last.status # "ok"
        /\ ~mem[last.w].open
        /\ ~file.exists

(***************************************************************************)
(* C11. Repeated decryption is idempotent: when a PadWriter decrypts the   *)
(* ciphertext it has just decrypted, the call succeeds again, returns the  *)
(* same plaintext, and leaves the mask in memory and the store read from   *)
(* the pad file as the first decryption left them.                         *)
(***************************************************************************)
C11_RepeatedDecrypt ==
    [][/\ last.op = "decrypt" /\ last.status = "ok"
       /\ last'.op = "decrypt" /\ last'.w = last.w /\ last'.arg = last.arg
       => /\ last'.status = "ok"
          /\ last'.out = last.out
          /\ mem'[last.w].unused = mem[last.w].unused
          /\ unpack_pad(file') = unpack_pad(file)]_vars

\* a ciphertext of an index that was unused has been decrypted twice
C11_Witness ==
    /\ last.op = "decrypt" /\ last.status = "ok"
    /\ last.pre.repeated
    /\ last.indices # <<>>
    /\ Range(last.indices) \cap issued = {}
    /\ Range(last.indices) \subseteq Consumed(mem[last.w].unused)

(***************************************************************************)
(* C12. Failed decrypt leaves the store unmodified: decrypt_message fails  *)
(* exactly when the payload is malformed (base64, decompression, index     *)
(* width) or holds an index that is not below the pad length, and then no  *)
(* mask entry of the PadWriter has changed and the pad file is as before,  *)
(* also when other indices of the ciphertext are in the pad.               *)
(***************************************************************************)
C12_FailedDecrypt ==
    last.op = "decrypt" =>
        LET raw == b64decode(last.arg)
            native == IF raw.ok THEN zlib_decompress(raw.val) ELSE Fail
            wide == native.ok /\ Len(native.val) % 8 = 0
            beyond == wide /\ \E i \in 1..(Len(native.val) \div 8) :
                        le_value(SubSeq(native.val, (8 * i) - 7, 8 * i))
                            >= Len(last.pre.pad)
        IN /\ last.status # "ok" <=> ~wide \/ beyond
           /\ last.status # "ok" =>
                /\ mem[last.w].pad = last.pre.pad
                /\ mem[last.w].unused = last.pre.unused
                /\ file = last.pre.file

\* the ciphertext named an unused index of the pad and an index beyond the
\* pad: the call failed and the index of the pad is still unused
C12_Witness ==
    /\ last.op = "decrypt" /\ last.status = "IndexError"
    /\ last.arg = Beyond
    /\ mem[last.w].unused[1]
    /\ Reloaded.ok /\ Reloaded.val.unused[1]

(***************************************************************************)
(* C13. Load-or-create: a constructor that finds no pad file and returns   *)
(* has generated a store and written it to the file; a constructor that    *)
(* finds a pad file loads exactly the pad and the mask of the file,        *)
(* generates nothing and leaves the file as it is, whatever length was     *)
(* passed.  So the pad of the file, and of every session, is the pad that  *)
(* was generated when the file was created.                                *)
(***************************************************************************)
C13_LoadOrCreate ==
    /\ last.op = "create" =>
            /\ ~last.pre.file.exists
            /\ last.status = "ok" =>
                /\ Reloaded.ok
                /\ Reloaded.val.pad = mem[last.w].pad
                /\ Reloaded.val.unused = mem[last.w].unused
                /\ generated = mem[last.w].pad
    /\ last.op = "load" =>
            /\ last.pre.file.exists
            /\ last.status = "ok"
            /\ file = last.pre.file
            /\ mem[last.w].open
            /\ mem[last.w].pad = Reloaded.val.pad
            /\ mem[last.w].unused = Reloaded.val.unused
            /\ mem[last.w].pad = generated
    /\ file.exists => Reloaded.ok /\ Reloaded.val.pad = generated

\* a later session has loaded a store with consumed positions, with a
\* length argument that is not the length of the pad
C13_Witness ==
    /\ last.op = "load" /\ last.status = "ok"
    /\ last.arg # None /\ last.arg[1] > 0 /\ last.arg[1] # Len(mem[last.w].pad)
    /\ Consumed(mem[last.w].unused) # {}
    /\ issued # {}

(***************************************************************************)
(* C14. Pad immutability: in every reachable state the pad a PadWriter     *)
(* holds and the pad of the pad file are the pad as it was generated, and  *)
(* each comes with a mask of the length of the pad; no transaction,        *)
(* returned or failed, has changed the pad in memory or in the file.       *)
(***************************************************************************)
C14_PadImmutable ==
    /\ \A w \in Writers :
            mem[w].open =>
                /\ mem[w].pad = generated
                /\ Len(mem[w].unused) = Len(generated)
    /\ file.exists =>
            /\ Reloaded.ok
            /\ Reloaded.val.pad = generated
            /\ Len(Reloaded.val.unused) = Len(generated)
    /\ last.op \in {"encrypt", "decrypt"} =>
            /\ mem[last.w].pad = last.pre.pad
            /\ unpack_pad(last.pre.file).val.pad = Reloaded.val.pad

\* a transaction has consumed a position of a pad of two bytes that are
\* not zero, after the other position was consumed
C14_Witness ==
    /\ last.op \in {"encrypt", "decrypt"} /\ last.status = "ok"
    /\ generated = <<65, 65>>
    /\ Consumed(last.pre.unused) # {}
    /\ Consumed(mem[last.w].unused) # Consumed(last.pre.unused)
    /\ Reloaded.val.pad = <<65, 65>>

(***************************************************************************)
(* C15. In-memory partial consumption is not rolled back: an               *)
(* encrypt_message that fails with pad exhaustion returns no ciphertext    *)
(* and leaves the indices it had chosen consumed in self.unused, and not   *)
(* in the pad file.  From there on, whatever is consumed in self.unused    *)
(* and not in the file when a transaction of the session begins is still   *)
(* consumed in self.unused when it ends, is not selected by it, and is     *)
(* consumed in the file once a transaction returns.                        *)
(***************************************************************************)
C15_NotRolledBack ==
    /\ Exhausted =>
            /\ last.out = <<>>
            /\ Range(last.indices) \subseteq
                    Consumed(mem[last.w].unused) \ Consumed(Reloaded.val.unused)
    /\ last.op \in {"encrypt", "decrypt"} =>
            /\ Leftover \subseteq Consumed(mem[last.w].unused)
            /\ last.op = "encrypt" => Range(last.indices) \cap Leftover = {}
            /\ Transacted => Leftover \subseteq Consumed(Reloaded.val.unused)

\* after a failed call that had chosen an index, a later encrypt_message of
\* the session has returned a ciphertext of another index, and the file
\* shows both as consumed
C15_Witness ==
    /\ Encrypted
    /\ last.indices # <<>>
    /\ Leftover # {}
    /\ Leftover \cap last.pre.issued = {}
    /\ Leftover \cup Range(last.indices) \subseteq Consumed(Reloaded.val.unused)

(***************************************************************************)
(* C16. The statistics are diagnostic only: encrypt_message ends as the    *)
(* loop over the symbols alone ends, with the same success or failure,     *)
(* the same indices and the same mask; so the zero-length message returns  *)
(* an empty ciphertext, leaves the mask as it is and writes the store.     *)
(* Fails on the code for the zero-length message: the minimum of the       *)
(* empty statistics raises ValueError after the loop.                      *)
(***************************************************************************)
C16_StatisticsDiagnostic ==
    last.op = "encrypt" =>
        /\ \E o \in encrypt_loop(last.arg, last.pre.pad, last.pre.unused,
                                  <<>>, <<>>) :
                /\ o.status = last.status
                /\ o.encrypted = last.indices
                /\ o.unused = mem[last.w].unused
        /\ last.arg = <<>> =>
                /\ last.status = "ok"
                /\ last.out = to_packed(tostring_message(<<>>), TRUE)
                /\ mem[last.w].unused = last.pre.unused
                /\ file = write_pad(last.pre.pad, last.pre.unused)

(***************************************************************************)
(* C17. Decrypt consumes what it references: a decrypt_message that        *)
(* returns has put out the pad bytes at the indices of its ciphertext, in  *)
(* order; every one of the indices is consumed in self.unused, whatever it *)
(* was before, and every other entry is as before; the pad file holds that *)
(* mask.  No later encrypt_message returns such an index: what is consumed *)
(* in the pad file stays consumed in it over every call, is consumed in    *)
(* the mask of every PadWriter on the file, and encrypt_message returns    *)
(* only indices that were unused in the mask when it was called.           *)
(***************************************************************************)
C17_DecryptConsumes ==
    /\ last.op = "decrypt" /\ last.status = "ok" =>
            /\ last.arg = to_packed(tostring_message(last.indices), TRUE)
            /\ \A i \in 1..Len(last.indices) : last.indices[i] < Len(last.pre.pad)
            /\ last.out = [i \in 1..Len(last.indices) |->
                                last.pre.pad[last.indices[i] + 1]]
            /\ Consumed(mem[last.w].unused)
                    = Consumed(last.pre.unused) \cup Range(last.indices)
            /\ Reloaded.ok
            /\ Reloaded.val.unused = mem[last.w].unused
    /\ last.op \in {"encrypt", "decrypt", "load"} =>
            Consumed(unpack_pad(last.pre.file).val.unused)
                \subseteq Consumed(Reloaded.val.unused)
    /\ \A w \in Writers :
            mem[w].open =>
                Consumed(Reloaded.val.unused) \subseteq Consumed(mem[w].unused)
    /\ Encrypted => Range(last.indices) \cap Consumed(last.pre.unused) = {}

\* the ciphertext named an index that no encrypt_message had returned and
\* that was unused, while another position was consumed
C17_Witness ==
    /\ last.op = "decrypt" /\ last.status = "ok"
    /\ last.indices # <<>>
    /\ Range(last.indices) \cap (Consumed(last.pre.unused) \cup issued) = {}
    /\ Consumed(last.pre.unused) # {}
    /\ Range(last.indices) \subseteq Consumed(Reloaded.val.unused)

(***************************************************************************)
(* C18. Serialized transactions of several sessions: with two PadWriter    *)
(* objects on the pad file whose calls never overlap, an index returned by *)
(* encrypt_message was not returned before, by either object, and a        *)
(* transaction that returns leaves consumed in the file whatever was       *)
(* consumed in it when the transaction began.  Fails on the code: each     *)
(* object selects from, and writes, the mask it loaded when it was         *)
(* constructed.                                                            *)
(***************************************************************************)
C18_SerializedSessions ==
    /\ Encrypted => Range(last.indices) \cap last.pre.issued = {}
    /\ Transacted =>
            Consumed(unpack_pad(last.pre.file).val.unused)
                \subseteq Consumed(Reloaded.val.unused)

====
